---- MODULE Spec2Model ----
(***************************************************************************)
(* A model of the metaes evaluator core: the meta-function bridge          *)
(* (evaluateMetaFunction, createMetaFunctionWrapper), the base evaluators  *)
(* (Identifier, SetProperty, ...) and the evaluation facade (metaesEval,   *)
(* MetaesContext.evaluate).                                                *)
(*                                                                         *)
(* Host (JavaScript) values are tokens (strings).  An exception handed to  *)
(* an error continuation is a record: either an ExceptionPacket-shaped     *)
(* object (isPacket) or a raw host value (raw).  Every handler is one      *)
(* action; what it does to its continuations, to the interceptor and to    *)
(* config.onError is recorded, in order, in the variable trace.            *)
(***************************************************************************)
EXTENDS Integers, Sequences, FiniteSets, TLC

VARIABLES
  pc,      \* "start" before the modelled call, "done" after it
  inp,     \* the inputs of the call (drawn by Init)
  op,      \* the operation that was called
  trace,   \* continuation calls, interceptor events and onError notifications, in order
  env,     \* the frame built by evaluateMetaFunction (values by name)
  ret,     \* how the host-level call ended: returned value or thrown exception
  object,  \* the host object SetProperty writes to (value by property)
  scriptIdsCounter,  \* the module-level counter of metaes.ts
  context, \* the MetaesContext: its default continuations, environment, config
  dispatched,  \* what metaesEval handed to the dispatcher: node, env, config
  suspended,   \* an invocation whose body has not completed: its
               \* _calledAfterInterceptor flag and the calls the body will still make
  trackingMap, \* the trackingMap of createFlameInterceptor (tracking by scriptId)
  frames,      \* the environment frames that exist, by identity (1, 2, ...)
  invocations  \* the calls of evaluateMetaFunction made so far, oldest first

vars == <<pc, inp, op, trace, env, ret, object, scriptIdsCounter, context, dispatched,
          suspended, trackingMap, frames, invocations>>

(***************************************************************************)
(* Bounds                                                                  *)
(***************************************************************************)
MaxParams == 2
MaxArgs == 2
MaxBodyCalls == 2
MaxFrames == 2
MaxScripts == 3

(***************************************************************************)
(* Host values                                                             *)
(***************************************************************************)
Undefined == "undefined"
Null == "null"

\* Values a body may produce or throw: falsy primitives, truthy primitives,
\* a host Error object (no value property) and an object {value: 7}.
BodyValues == {"0", "1", "''", "false", Null, Undefined, "Error", "Box"}

\* Values used where a body misbehaves and calls several continuations.
FewValues == {"1"}

ArgValues == {"1", "2"}

\* JavaScript truthiness, as used by `if (error)`.
Truthy(v) == v \notin {"0", "''", "false", Null, Undefined, "NaN"}

\* Reading a property of null or undefined throws a TypeError.
HasProperties(v) == v \notin {Null, Undefined}

\* v.value for a raw host value v that has properties.
ValueProperty(v) == IF v = "Box" THEN "7" ELSE Undefined

\* An ExceptionPacket-shaped object {type, value, location}.
Packet(type, value, location) ==
  [isPacket |-> TRUE, type |-> type, value |-> value, location |-> location, raw |-> ""]

\* A raw host value travelling where a packet is expected.
Raw(v) ==
  [isPacket |-> FALSE, type |-> "", value |-> "", location |-> "", raw |-> v]

NoThrow == Raw("<none>")

\* exception.value as the host evaluates it (the caller checks CanRead first).
ReadValue(x) == IF x.isPacket THEN x.value ELSE ValueProperty(x.raw)

CanRead(x) == x.isPacket \/ HasProperties(x.raw)

\* What a host `throw v` carries: the value itself.
Thrown(v) == Raw(v)

(***************************************************************************)
(* Trace entries and continuations                                         *)
(***************************************************************************)
\* One observable step: k is "c", "cerr", "enter", "exit" or "onError".
Ev(k, x) == [k |-> k, x |-> x]

\* A meta-function's config: whether there is one, whether it has an onError
\* hook, and the phases in which its interceptor throws.
NoConfig == [present |-> FALSE, onError |-> FALSE, throwsOn |-> {}]

\* Continuations a caller may pass.  "record" only records the call;
\* "absent" is an undefined continuation; "throws" raises a host Error.
Recording == [kind |-> "record", config |-> NoConfig]
Absent == [kind |-> "absent", config |-> NoConfig]
Throwing == [kind |-> "throws", config |-> NoConfig]

\* r => (result = r)
WrapperC == [kind |-> "wrapper_c", config |-> NoConfig]

\* exception => { error = exception.value; config && config.onError && config.onError(exception) }
WrapperCerr(config) == [kind |-> "wrapper_cerr", config |-> config]

\* The host exception a continuation raises when called with x (NoThrow if none).
ContinuationThrows(cont, x) ==
  CASE cont.kind = "wrapper_cerr" -> IF CanRead(x) THEN NoThrow ELSE Thrown("TypeError")
    [] cont.kind = "throws" -> Thrown("Error")
    [] OTHER -> NoThrow

\* Calling continuation cont (as c or as cerr, per k) with x in state st.
Invoke(st, k, cont, x) ==
  [st EXCEPT
     !.trace = @ \o <<Ev(k, x)>>
                 \o (IF cont.kind = "wrapper_cerr" /\ CanRead(x)
                        /\ cont.config.present /\ cont.config.onError
                     THEN <<Ev("onError", x)>> ELSE <<>>),
     !.result = IF cont.kind = "wrapper_c" THEN x.raw ELSE @,
     !.error = IF cont.kind = "wrapper_cerr" /\ CanRead(x) THEN ReadValue(x) ELSE @,
     !.thrown = ContinuationThrows(cont, x)]

(***************************************************************************)
(* Frames                                                                  *)
(***************************************************************************)
Val(v) == [array |-> FALSE, v |-> v, items |-> <<>>]
Arr(s) == [array |-> TRUE, v |-> "", items |-> s]

\* values[name] = val
Bind(values, name, val) ==
  [n \in (DOMAIN values) \cup {name} |-> IF n = name THEN val ELSE values[n]]

\* args[i] with a 0-based index: undefined past the end.
ArgAt(args, i) == IF i < Len(args) THEN args[i + 1] ELSE Undefined

\* args.slice(i)
Slice(args, i) == IF i < Len(args) THEN [k \in 1..(Len(args) - i) |-> args[i + k]] ELSE <<>>

NotImplementedException(message, location) == Packet("NotImplementedException", message, location)

(***************************************************************************)
(* evaluateMetaFunction                                                    *)
(***************************************************************************)
\* values: { this: thisObject, arguments: args }
NewFrameValues(thisObject, args) ==
  [n \in {"this", "arguments"} |-> IF n = "this" THEN Val(thisObject) ELSE Arr(args)]

\* BindParams with a forgotten i++ : every Identifier reads args[i] at the same i.
RECURSIVE BindParams_NoIncrement(_, _, _, _)
BindParams_NoIncrement(params, args, i, values) ==
  IF params = <<>>
  THEN [values |-> values, error |-> NoThrow]
  ELSE LET param == Head(params) IN
       CASE param.type = "Identifier" ->
              BindParams_NoIncrement(Tail(params), args, i,
                                     Bind(values, param.name, Val(ArgAt(args, i))))
         [] param.type = "RestElement" ->
              BindParams_NoIncrement(Tail(params), args, i,
                                     Bind(values, param.name, Arr(Slice(args, i))))
         [] OTHER ->
              [values |-> values,
               error |-> NotImplementedException("Not supported type of function param.", param.id)]

\* BindParams without the default case: an unsupported pattern is skipped.
RECURSIVE BindParams_SkipsUnsupported(_, _, _, _)
BindParams_SkipsUnsupported(params, args, i, values) ==
  IF params = <<>>
  THEN [values |-> values, error |-> NoThrow]
  ELSE LET param == Head(params) IN
       CASE param.type = "Identifier" ->
              BindParams_SkipsUnsupported(Tail(params), args, i + 1,
                                          Bind(values, param.name, Val(ArgAt(args, i))))
         [] param.type = "RestElement" ->
              BindParams_SkipsUnsupported(Tail(params), args, i,
                                          Bind(values, param.name, Arr(Slice(args, i))))
         [] OTHER ->
              BindParams_SkipsUnsupported(Tail(params), args, i, values)

\* The parameter loop.  `break` leaves the switch, not the loop, so the loop
\* goes on after a RestElement.
RECURSIVE BindParams(_, _, _, _)
BindParams(params, args, i, values) ==
  IF params = <<>>
  THEN [values |-> values, error |-> NoThrow]
  ELSE LET param == Head(params) IN
       CASE param.type = "Identifier" ->
              BindParams(Tail(params), args, i + 1, Bind(values, param.name, Val(ArgAt(args, i))))
         [] param.type = "RestElement" ->
              BindParams(Tail(params), args, i, Bind(values, param.name, Arr(Slice(args, i))))
         [] OTHER ->
              [values |-> values,
               error |-> NotImplementedException("Not supported type of function param.", param.id)]

\* callInterceptor(e, config, value, env, phase), guarded by `config &&`; what
\* the interceptor throws leaves through the call.
CallInterceptor(st, config, value, phase) ==
  IF config.present
  THEN [st EXCEPT !.trace = @ \o <<Ev(phase, Raw(value))>>,
                  !.thrown = IF phase \in config.throwsOn
                             THEN Thrown("InterceptorError") ELSE @]
  ELSE st

\* _calledAfterInterceptor = true, the statement after the interceptor call.
ThenSetCalled(st) == IF st.thrown # NoThrow THEN st ELSE [st EXCEPT !.called = TRUE]

InterceptorAfter(st, config, value) ==
  IF st.called
  THEN st
  ELSE ThenSetCalled(CallInterceptor(st, config, value, "exit"))

\* `_interceptorAfter(e, value, env)` as the statement after a continuation
\* call: not reached when the call threw.
ThenInterceptorAfter(called, config, value) ==
  IF called.thrown # NoThrow THEN called ELSE InterceptorAfter(called, config, value)

\* `throw exception.value` as the statement after cerr(exception).
ThenThrow(called, value) ==
  IF called.thrown # NoThrow THEN called ELSE [called EXCEPT !.thrown = Thrown(value)]

\* OnResult that emits exit before it calls c.
OnResult_ExitFirst(st, metaFunction, c, result) ==
  Invoke(InterceptorAfter(st, metaFunction.config, result), "c", c, Raw(result))

\* result => { c(result); _interceptorAfter(e, result, env) }
OnResult(st, metaFunction, c, result) ==
  ThenInterceptorAfter(Invoke(st, "c", c, Raw(result)), metaFunction.config, result)

\* OnException without the ReturnStatement case: a return is forwarded as an error.
OnException_NoReturnCase(st, metaFunction, c, cerr, exception) ==
  ThenThrow(Invoke(st, "cerr", cerr, [exception EXCEPT !.location = metaFunction.e.id]),
            exception.value)

\* exception => { switch (exception.type) ... }
OnException(st, metaFunction, c, cerr, exception) ==
  IF exception.type = "ReturnStatement"
  THEN ThenInterceptorAfter(Invoke(st, "c", c, Raw(exception.value)),
                            metaFunction.config, exception.value)
  ELSE ThenThrow(Invoke(st, "cerr", cerr, [exception EXCEPT !.location = metaFunction.e.id]),
                 exception.value)

\* evaluate(e.body, env, config, onResult, onException): the body's evaluation
\* calls its continuations as the sequence body says; a host exception raised
\* by a continuation unwinds the evaluation.
RECURSIVE EvaluateBody(_, _, _, _, _)
EvaluateBody(body, st, metaFunction, c, cerr) ==
  IF body = <<>> \/ st.thrown # NoThrow
  THEN st
  ELSE EvaluateBody(Tail(body),
                    IF Head(body).k = "c"
                    THEN OnResult(st, metaFunction, c, Head(body).x.raw)
                    ELSE OnException(st, metaFunction, c, cerr, Head(body).x),
                    metaFunction, c, cerr)

\* The state of a call before its first step.
Started == [trace |-> <<>>, called |-> FALSE, thrown |-> NoThrow,
            result |-> Undefined, error |-> Undefined]

\* The try block once the parameter loop has ended as bound says.
TryBlock(metaFunction, c, cerr, bound, body) ==
  IF bound.error # NoThrow
  THEN [Started EXCEPT
          !.trace = IF metaFunction.config.present /\ metaFunction.config.onError
                    THEN <<Ev("onError", bound.error)>> ELSE <<>>,
          !.thrown = bound.error]
  ELSE EvaluateBody(body, CallInterceptor(Started, metaFunction.config, "metaFunction", "enter"),
                    metaFunction, c, cerr)

\* catch (e) { cerr(e) }
CatchBlock(tried, cerr) ==
  IF tried.thrown = NoThrow THEN tried ELSE Invoke(tried, "cerr", cerr, tried.thrown)

\* What a call of evaluateMetaFunction leaves behind.
Outcome(caught, closure, values) ==
  [trace |-> caught.trace,
   env |-> [prev |-> closure, values |-> values],
   escaped |-> caught.thrown,
   result |-> caught.result,
   error |-> caught.error]

AfterBinding(metaFunction, c, cerr, bound, body) ==
  Outcome(CatchBlock(TryBlock(metaFunction, c, cerr, bound, body), cerr),
          metaFunction.closure, bound.values)

EvaluateMetaFunction(metaFunction, c, cerr, thisObject, args, body) ==
  AfterBinding(metaFunction, c, cerr,
               BindParams(metaFunction.e.params, args, 0, NewFrameValues(thisObject, args)),
               body)

(***************************************************************************)
(* createMetaFunctionWrapper                                               *)
(***************************************************************************)
Returned(v) == [threw |-> FALSE, x |-> Raw(v)]
Threw(x) == [threw |-> TRUE, x |-> x]

\* if (error) { throw error; } return result;
WrapperOutcome(r) ==
  [trace |-> r.trace,
   env |-> r.env,
   ret |-> IF r.escaped # NoThrow
           THEN Threw(r.escaped)
           ELSE IF Truthy(r.error) THEN Threw(Thrown(r.error)) ELSE Returned(r.result)]

MetaFunctionWrapper(metaFunction, thisObject, args, body) ==
  WrapperOutcome(EvaluateMetaFunction(metaFunction, WrapperC,
                                      WrapperCerr(metaFunction.config),
                                      thisObject, args, body))

(***************************************************************************)
(* Inputs of the meta-function bridge                                      *)
(***************************************************************************)
SeqsUpTo(S, n) == UNION {[1..k -> S] : k \in 0..n}

IsInjective(s) == \A i, j \in DOMAIN s : s[i] = s[j] => i = j

\* Parameter nodes: three identifiers, a rest element and a destructuring pattern.
Params ==
  {[type |-> "Identifier", name |-> "a", id |-> "param_a"],
   [type |-> "Identifier", name |-> "b", id |-> "param_b"],
   [type |-> "Identifier", name |-> "d", id |-> "param_d"],
   [type |-> "RestElement", name |-> "xs", id |-> "param_xs"],
   [type |-> "ObjectPattern", name |-> "", id |-> "param_pattern"]}

ParamLists == {ps \in SeqsUpTo(Params, MaxParams) : IsInjective(ps)}

Configs ==
  {NoConfig,
   [present |-> TRUE, onError |-> FALSE, throwsOn |-> {}],
   [present |-> TRUE, onError |-> TRUE, throwsOn |-> {}]}

BodyTypes == {"ReturnStatement", "ThrowStatement"}

BodyCallsOver(V) ==
  {Ev("c", Raw(v)) : v \in V}
    \cup {Ev("cerr", Packet(t, v, "body")) : t \in BodyTypes, v \in V}

\* A body completes once with any value, never completes (<<>>), or
\* misbehaves by calling several continuations.
Bodies == SeqsUpTo(BodyCallsOver(FewValues), MaxBodyCalls)
            \cup {<<b>> : b \in BodyCallsOver(BodyValues)}

MetaFunctions ==
  {[e |-> [id |-> "fn", params |-> ps], closure |-> "closure", config |-> cfg] :
     ps \in ParamLists, cfg \in Configs}

Inputs ==
  [metaFunction : MetaFunctions, thisObject : {"self"},
   args : SeqsUpTo(ArgValues, MaxArgs), body : Bodies]

NoEnv == [prev |-> "", values |-> [n \in {} |-> Val(Undefined)]]

(***************************************************************************)
(* The meta-function bridge as a state machine                             *)
(***************************************************************************)
\* Values of the variables a specification does not use.
NoObject == [p \in {} |-> 0]
NoContext == [used |-> FALSE]
NoDispatch == [happened |-> FALSE]
NoSuspension == [called |-> FALSE, pending |-> <<>>]
NoTracking == [s \in {} |-> <<>>]
NoFrames == <<>>

Init ==
  /\ pc = "start"
  /\ inp \in Inputs
  /\ op = ""
  /\ trace = <<>>
  /\ env = NoEnv
  /\ ret = Returned(Undefined)
  /\ object = NoObject
  /\ scriptIdsCounter = 0
  /\ context = NoContext
  /\ dispatched = NoDispatch
  /\ suspended = NoSuspension
  /\ trackingMap = NoTracking
  /\ frames = NoFrames
  /\ invocations = <<>>

\* The caller's view of a direct call: it returns nothing, or lets a host
\* exception escape.
DirectOutcome(r) ==
  [trace |-> r.trace,
   env |-> r.env,
   ret |-> IF r.escaped = NoThrow THEN Returned(Undefined) ELSE Threw(r.escaped)]

\* The call's effects become the next state.
Observe(r) ==
  /\ trace' = r.trace
  /\ env' = r.env
  /\ ret' = r.ret

\* evaluateMetaFunction(metaFunction, c, cerr, thisObject, args) with
\* continuations that record their argument and return.
CallEvaluateMetaFunction ==
  /\ pc = "start"
  /\ Observe(DirectOutcome(EvaluateMetaFunction(inp.metaFunction, Recording, Recording,
                                                inp.thisObject, inp.args, inp.body)))
  /\ op' = "evaluateMetaFunction"
  /\ pc' = "done"
  /\ UNCHANGED <<inp, object, scriptIdsCounter, context, dispatched, suspended, trackingMap,
                 frames, invocations>>

\* createMetaFunctionWrapper(metaFunction).apply(thisObject, args)
CallMetaFunctionWrapper ==
  /\ pc = "start"
  /\ Observe(MetaFunctionWrapper(inp.metaFunction, inp.thisObject, inp.args, inp.body))
  /\ op' = "wrapper"
  /\ pc' = "done"
  /\ UNCHANGED <<inp, object, scriptIdsCounter, context, dispatched, suspended, trackingMap,
                 frames, invocations>>

Next == CallEvaluateMetaFunction \/ CallMetaFunctionWrapper

Spec == Init /\ [][Next]_vars

(***************************************************************************)
(* Host arithmetic on numbers (tokens): what the compound assignment       *)
(* operators of the host compute.  Operands are integers; a result is the  *)
(* decimal token of an integer, "NaN", "Infinity", "-Infinity", a fraction *)
(* "n/d" in lowest terms, or "2^32-k" for the unsigned value 2^32 - k.     *)
(* (The sign of zero is not kept.)                                         *)
(***************************************************************************)
Num(n) == ToString(n)

\* The integer a token denotes (operands are small integers).
NumOf(v) == CHOOSE n \in -16..16 : Num(n) = v

Abs(n) == IF n < 0 THEN -n ELSE n
Sign(n) == IF n < 0 THEN -1 ELSE 1

RECURSIVE GCD(_, _)
GCD(a, b) == IF b = 0 THEN a ELSE GCD(b, a % b)

JSDiv(a, b) ==
  IF b = 0
  THEN IF a = 0 THEN "NaN" ELSE IF a > 0 THEN "Infinity" ELSE "-Infinity"
  ELSE LET g == GCD(Abs(a), Abs(b))
           n == Sign(a) * Sign(b) * (Abs(a) \div g)
           d == Abs(b) \div g
       IN IF d = 1 THEN Num(n) ELSE Num(n) \o "/" \o Num(d)

\* The remainder takes the sign of the dividend.
JSRem(a, b) == IF b = 0 THEN "NaN" ELSE Num(Sign(a) * (Abs(a) % Abs(b)))

\* The shift count is the right operand's low five bits.
ShiftCount(b) == b % 32

\* Doubling in 32-bit two's complement.
Dbl32(x) ==
  IF x >= 1073741824 THEN ((x - 1073741824) * 2 - 2147483647) - 1
  ELSE IF x < -1073741824 THEN ((x + 1073741824) * 2 + 2147483647) + 1
  ELSE 2 * x

RECURSIVE Shl32(_, _)
Shl32(x, s) == IF s = 0 THEN x ELSE Shl32(Dbl32(x), s - 1)

RECURSIVE Sar(_, _)
Sar(x, s) == IF s = 0 THEN x ELSE Sar(x \div 2, s - 1)

JSShl(a, b) == Num(Shl32(a, ShiftCount(b)))
JSShr(a, b) == Num(Sar(a, ShiftCount(b)))

\* The unsigned shift reads a negative a as 2^32 + a.
JSUshr(a, b) ==
  IF a >= 0 THEN Num(Sar(a, ShiftCount(b)))
  ELSE IF ShiftCount(b) = 0 THEN "2^32" \o Num(a)
  ELSE Num(Sar(((a \div 2) + 2147483647) + 1, ShiftCount(b) - 1))

RECURSIVE BitAnd(_, _)
BitAnd(a, b) ==
  IF a = 0 \/ b = 0 THEN 0
  ELSE IF a = -1 THEN b
  ELSE IF b = -1 THEN a
  ELSE (IF a % 2 = 1 /\ b % 2 = 1 THEN 1 ELSE 0) + 2 * BitAnd(a \div 2, b \div 2)

RECURSIVE BitOr(_, _)
BitOr(a, b) ==
  IF a = 0 THEN b
  ELSE IF b = 0 THEN a
  ELSE IF a = -1 \/ b = -1 THEN -1
  ELSE (IF a % 2 = 1 \/ b % 2 = 1 THEN 1 ELSE 0) + 2 * BitOr(a \div 2, b \div 2)

RECURSIVE BitXor(_, _)
BitXor(a, b) ==
  IF a = 0 THEN b
  ELSE IF b = 0 THEN a
  ELSE IF a = -1 THEN (-b) - 1
  ELSE IF b = -1 THEN (-a) - 1
  ELSE (((a % 2) + (b % 2)) % 2) + 2 * BitXor(a \div 2, b \div 2)

(***************************************************************************)
(* interpreter/base.ts                                                     *)
(***************************************************************************)
\* getValue(name, c, cerr, env): the nearest frame of the chain that binds
\* name answers c; a chain that ends answers cerr.  chain[1] is env, chain[2]
\* is env.prev, and so on.
RECURSIVE GetValue(_, _)
GetValue(name, chain) ==
  IF chain = <<>>
  THEN Ev("cerr", Packet("ReferenceError", "ReferenceError: not defined", Undefined))
  ELSE IF name \in DOMAIN Head(chain)
       THEN Ev("c", Raw(Head(chain)[name]))
       ELSE GetValue(name, Tail(chain))

\* exception => { (exception.location = e), cerr(exception) }; c is passed on.
Located(got, e) ==
  IF got.k = "c" THEN <<got>> ELSE <<Ev("cerr", [got.x EXCEPT !.location = e.id])>>

\* Identifier that forwards the exception without its location.
Identifier_NoLocation(e, chain) == <<GetValue(e.name, chain)>>

\* Identifier(e, c, cerr, env)
Identifier(e, chain) ==
  Located(GetValue(e.name, chain), e)

\* catch (e) { cerr(e) } of Apply
ApplyCatch(tried, cerr) ==
  IF tried.thrown = NoThrow THEN tried ELSE Invoke(tried, "cerr", cerr, tried.thrown)

\* Apply({fn, thisObj, args}, c, cerr): fn.apply(thisObj, args) returns
\* fn.value or throws it; the call of c is inside the try block.
Apply(e, c, cerr) ==
  ApplyCatch(IF e.fn.throws
             THEN [Started EXCEPT !.thrown = Thrown(e.fn.value)]
             ELSE Invoke(Started, "c", c, Raw(e.fn.value)),
             cerr)

\* SetProperty whose "-=" case adds.
SetProperty_MinusAdds(e, obj) ==
  LET old == NumOf(obj[e.property])
      value == NumOf(e.value)
      done(new) == [trace |-> <<Ev("c", Raw(new))>>, object |-> [obj EXCEPT ![e.property] = new]]
  IN CASE e.operator = "=" -> done(Num(value))
       [] e.operator = "+=" -> done(Num(old + value))
       [] e.operator = "-=" -> done(Num(old + value))
       [] e.operator = "*=" -> done(Num(old * value))
       [] e.operator = "/=" -> done(JSDiv(old, value))
       [] e.operator = "%=" -> done(JSRem(old, value))
       [] e.operator = "<<=" -> done(JSShl(old, value))
       [] e.operator = ">>=" -> done(JSShr(old, value))
       [] e.operator = ">>>=" -> done(JSUshr(old, value))
       [] e.operator = "&=" -> done(Num(BitAnd(old, value)))
       [] e.operator = "|=" -> done(Num(BitOr(old, value)))
       [] e.operator = "^=" -> done(Num(BitXor(old, value)))
       [] OTHER ->
            [trace |-> <<Ev("cerr", NotImplementedException("Operator is not supported.", Undefined))>>,
             object |-> obj]

\* SetProperty({object, property, value, operator}, c, cerr) on numbers.
SetProperty(e, obj) ==
  LET old == NumOf(obj[e.property])
      value == NumOf(e.value)
      done(new) == [trace |-> <<Ev("c", Raw(new))>>, object |-> [obj EXCEPT ![e.property] = new]]
  IN CASE e.operator = "=" -> done(Num(value))
       [] e.operator = "+=" -> done(Num(old + value))
       [] e.operator = "-=" -> done(Num(old - value))
       [] e.operator = "*=" -> done(Num(old * value))
       [] e.operator = "/=" -> done(JSDiv(old, value))
       [] e.operator = "%=" -> done(JSRem(old, value))
       [] e.operator = "<<=" -> done(JSShl(old, value))
       [] e.operator = ">>=" -> done(JSShr(old, value))
       [] e.operator = ">>>=" -> done(JSUshr(old, value))
       [] e.operator = "&=" -> done(Num(BitAnd(old, value)))
       [] e.operator = "|=" -> done(Num(BitOr(old, value)))
       [] e.operator = "^=" -> done(Num(BitXor(old, value)))
       [] OTHER ->
            [trace |-> <<Ev("cerr", NotImplementedException("Operator is not supported.", Undefined))>>,
             object |-> obj]

(***************************************************************************)
(* Properties of the meta-function bridge                                  *)
(***************************************************************************)
CallsOf(k) == SelectSeq(trace, LAMBDA t : t.k = k)
Count(k) == Len(CallsOf(k))
CountIn(tr, k) == Len(SelectSeq(tr, LAMBDA t : t.k = k))

Direct == pc = "done" /\ op = "evaluateMetaFunction"
Bridge == pc = "done" /\ op \in {"evaluateMetaFunction", "wrapper"}

Supported(param) == param.type \in {"Identifier", "RestElement"}
ParamsBind == \A p \in DOMAIN inp.metaFunction.e.params : Supported(inp.metaFunction.e.params[p])

\* The body completes exactly once, with a result or with a ReturnStatement packet.
Succeeds ==
  /\ Len(inp.body) = 1
  /\ inp.body[1].k = "c" \/ inp.body[1].x.type = "ReturnStatement"

\* The body completes exactly once, with a packet that is not a ReturnStatement.
Fails ==
  /\ Len(inp.body) = 1
  /\ inp.body[1].k = "cerr" /\ inp.body[1].x.type # "ReturnStatement"

\* The value the body completed with.
BodyValue == IF inp.body[1].k = "c" THEN inp.body[1].x.raw ELSE inp.body[1].x.value

\* C1: a call of the host wrapper returns the value delivered to c when the
\* evaluation succeeds, and throws the error packet's value (and does not
\* return) whenever the evaluation fails through cerr, whatever that value is
\* (0, "", false, null, undefined included).
C1_WrapperReturnsOrThrowsPacketValue ==
  (pc = "done" /\ op = "wrapper" /\ ParamsBind /\ Len(inp.body) = 1) =>
     IF Succeeds
     THEN ret = Returned(BodyValue)
     ELSE ret = Threw(Thrown(BodyValue))

\* C2: a body that ends with a ReturnStatement packet carrying v and a body
\* that succeeds with v are observed alike: c is called once with v, cerr is
\* not called, and the interceptor (when the meta-function has a config) sees
\* one enter and then one exit with value v.
C2_ReturnEqualsResult ==
  (Direct /\ ParamsBind /\ Succeeds) =>
     /\ CallsOf("c") = <<Ev("c", Raw(BodyValue))>>
     /\ CallsOf("cerr") = <<>>
     /\ inp.metaFunction.config.present =>
          trace = <<Ev("enter", Raw("metaFunction")), Ev("c", Raw(BodyValue)),
                    Ev("exit", Raw(BodyValue))>>
     /\ ~inp.metaFunction.config.present => trace = <<Ev("c", Raw(BodyValue))>>

C2_Witness ==
  /\ Direct
  /\ inp.body = <<Ev("cerr", Packet("ReturnStatement", "0", "body"))>>
  /\ inp.metaFunction.config.present
  /\ Len(inp.metaFunction.e.params) = 1
  /\ trace = <<Ev("enter", Raw("metaFunction")), Ev("c", Raw("0")), Ev("exit", Raw("0"))>>

\* C3: when the body ends with a packet that is not a ReturnStatement, cerr is
\* called exactly once, with that packet located at the function node; c is not
\* called and cerr is not called again with anything else.
C3_CerrOnceWithLocatedPacket ==
  (Direct /\ ParamsBind /\ Fails) =>
     /\ CallsOf("cerr") =
          <<Ev("cerr", [inp.body[1].x EXCEPT !.location = inp.metaFunction.e.id])>>
     /\ CallsOf("c") = <<>>

\* C4: when the parameters bind, the interceptor sees exactly one enter, and
\* exactly one exit if and only if the body's evaluation completes (result,
\* ReturnStatement or any other packet); enters >= exits at every prefix of the
\* trace and they are equal once the invocation has completed.
C4_InterceptorPairing ==
  (Direct /\ ParamsBind /\ inp.metaFunction.config.present /\ Len(inp.body) <= 1) =>
     /\ Count("enter") = 1
     /\ Count("exit") = (IF Len(inp.body) = 1 THEN 1 ELSE 0)
     /\ \A n \in 0..Len(trace) :
          CountIn(SubSeq(trace, 1, n), "enter") >= CountIn(SubSeq(trace, 1, n), "exit")

\* The first parameter whose kind is neither Identifier nor RestElement.
FirstUnsupported ==
  LET params == inp.metaFunction.e.params
      p == CHOOSE q \in DOMAIN params :
             ~Supported(params[q]) /\ \A r \in 1..(q - 1) : Supported(params[r])
  IN params[p]

\* C9: a parameter that is neither an Identifier nor a RestElement aborts the
\* invocation: config.onError (when there is one) is notified with the
\* NotImplementedException, cerr receives that same exception, c is not
\* called, the body is not evaluated and no enter or exit event is emitted.
C9_UnsupportedParamAborts ==
  (Direct /\ ~ParamsBind) =>
     LET config == inp.metaFunction.config
         cerrs == CallsOf("cerr")
     IN /\ Len(cerrs) = 1
        /\ cerrs[1].x.type = "NotImplementedException"
        /\ cerrs[1].x.location = FirstUnsupported.id
        /\ trace = (IF config.present /\ config.onError
                    THEN <<Ev("onError", cerrs[1].x)>> ELSE <<>>) \o cerrs
        /\ Count("c") = 0 /\ Count("enter") = 0 /\ Count("exit") = 0

C9_Witness ==
  /\ Direct
  /\ Len(inp.metaFunction.e.params) = 2
  /\ inp.metaFunction.e.params[1].type = "Identifier"
  /\ inp.metaFunction.e.params[2].type = "ObjectPattern"
  /\ inp.metaFunction.config.onError
  /\ inp.body = <<Ev("c", Raw("1"))>>
  /\ Len(trace) = 2 /\ trace[1].k = "onError" /\ trace[2].k = "cerr"

IdentifiersBefore(params, p) ==
  Cardinality({q \in 1..(p - 1) : params[q].type = "Identifier"})

RestBefore(params, p) == \E q \in 1..(p - 1) : params[q].type = "RestElement"

\* C10: the k-th Identifier parameter (0-based, before any RestElement) is
\* bound to args[k], undefined when k >= args.length; a RestElement reached
\* after i Identifier parameters is bound to the sequence args[i..n-1], which
\* is empty (and still a sequence, still bound) when args.length <= i.
C10_ParameterBinding ==
  (Bridge /\ ParamsBind) =>
     LET params == inp.metaFunction.e.params
         args == inp.args
     IN \A p \in DOMAIN params :
          LET k == IdentifiersBefore(params, p)
              name == params[p].name
          IN /\ (params[p].type = "Identifier" /\ ~RestBefore(params, p)) =>
                  /\ name \in DOMAIN env.values
                  /\ env.values[name] = Val(IF k < Len(args) THEN args[k + 1] ELSE Undefined)
             /\ params[p].type = "RestElement" =>
                  /\ name \in DOMAIN env.values
                  /\ env.values[name].array
                  /\ Len(env.values[name].items) = (IF Len(args) > k THEN Len(args) - k ELSE 0)
                  /\ \A j \in 1..Len(env.values[name].items) :
                       env.values[name].items[j] = args[k + j]

C10_Witness ==
  /\ Direct
  /\ Len(inp.metaFunction.e.params) = 2
  /\ inp.metaFunction.e.params[1].type = "Identifier"
  /\ inp.metaFunction.e.params[2].type = "RestElement"
  /\ inp.args = <<"2">>
  /\ env.values[inp.metaFunction.e.params[1].name] = Val("2")
  /\ env.values["xs"] = Arr(<<>>)

\* The body's first completion is a success: a result or a ReturnStatement
\* packet.
FirstSucceeds ==
  /\ inp.body # <<>>
  /\ inp.body[1].k = "c" \/ inp.body[1].x.type = "ReturnStatement"

\* The place of the first event of kind k in the trace.
FirstIndex(k) == CHOOSE i \in DOMAIN trace : trace[i].k = k /\ \A j \in 1..(i - 1) : trace[j].k # k

\* C16: on a successful completion the enter event comes first, then the
\* caller's c, then the exit event, and the exit event carries the value that
\* was passed to c.
C16_ResultBeforeExit ==
  (Bridge /\ ParamsBind /\ inp.metaFunction.config.present /\ FirstSucceeds) =>
     /\ Count("enter") = 1 /\ Count("exit") = 1 /\ Count("c") >= 1
     /\ FirstIndex("enter") < FirstIndex("c")
     /\ FirstIndex("c") < FirstIndex("exit")
     /\ trace[FirstIndex("exit")].x = trace[FirstIndex("c")].x
     /\ trace[FirstIndex("c")].x = Raw(BodyValue)

C16_Witness ==
  /\ Direct
  /\ inp.body = <<Ev("cerr", Packet("ReturnStatement", "1", "body")), Ev("c", Raw("1"))>>
  /\ inp.metaFunction.config.onError
  /\ trace = <<Ev("enter", Raw("metaFunction")), Ev("c", Raw("1")), Ev("exit", Raw("1")),
               Ev("c", Raw("1"))>>

\* The first RestElement of the parameter list (0 when there is none).
FirstRest ==
  LET params == inp.metaFunction.e.params
  IN IF \E q \in DOMAIN params : params[q].type = "RestElement"
     THEN CHOOSE q \in DOMAIN params :
            params[q].type = "RestElement" /\ ~RestBefore(params, q)
     ELSE 0

\* C17: once a RestElement has been bound, no parameter after it is bound or
\* inspected: an Identifier after it gets no binding, an unsupported pattern
\* after it raises no error.
C17_BindingStopsAtRest ==
  (Bridge /\ FirstRest # 0
     /\ \A q \in 1..FirstRest : Supported(inp.metaFunction.e.params[q])) =>
     /\ \A p \in (FirstRest + 1)..Len(inp.metaFunction.e.params) :
          inp.metaFunction.e.params[p].type = "Identifier" =>
            inp.metaFunction.e.params[p].name \notin DOMAIN env.values
     /\ \A i \in DOMAIN trace : trace[i].x.type # "NotImplementedException"

(***************************************************************************)
(* An invocation whose body completes in later host turns                  *)
(***************************************************************************)
\* Configs whose interceptor throws: on exit only, or on every event.
ThrowingConfigs ==
  {[present |-> TRUE, onError |-> FALSE, throwsOn |-> {"exit"}],
   [present |-> TRUE, onError |-> FALSE, throwsOn |-> {"enter", "exit"}]}

SuspendedInputs ==
  [metaFunction : {[e |-> [id |-> "fn", params |-> <<>>], closure |-> "closure", config |-> cfg] :
                     cfg \in Configs \cup ThrowingConfigs},
   thisObject : {"self"}, args : {<<>>},
   body : SeqsUpTo(BodyCallsOver(ArgValues), MaxBodyCalls)]

SuspendedInit ==
  /\ pc = "start"
  /\ inp \in SuspendedInputs
  /\ op = ""
  /\ trace = <<>>
  /\ env = NoEnv
  /\ ret = Returned(Undefined)
  /\ object = NoObject
  /\ scriptIdsCounter = 0
  /\ context = NoContext
  /\ dispatched = NoDispatch
  /\ suspended = NoSuspension
  /\ trackingMap = NoTracking
  /\ frames = NoFrames
  /\ invocations = <<>>

\* What the continuations handed to evaluate still hold once
\* evaluateMetaFunction has returned: the flag, and the calls to come (none
\* when evaluate was never reached).
Suspension(r, body) ==
  [called |-> FALSE, pending |-> IF CountIn(r.trace, "cerr") = 0 THEN body ELSE <<>>]

\* evaluateMetaFunction(metaFunction, c, cerr, thisObject, args) whose body
\* suspends: evaluate returns before it has called a continuation.
CallEvaluateMetaFunctionSuspending ==
  /\ pc = "start"
  /\ Observe(DirectOutcome(EvaluateMetaFunction(inp.metaFunction, Recording, Recording,
                                                inp.thisObject, inp.args, <<>>)))
  /\ suspended' = Suspension(EvaluateMetaFunction(inp.metaFunction, Recording, Recording,
                                                  inp.thisObject, inp.args, <<>>), inp.body)
  /\ op' = "evaluateMetaFunction"
  /\ pc' = "suspended"
  /\ UNCHANGED <<inp, object, scriptIdsCounter, context, dispatched, trackingMap,
                 frames, invocations>>

\* The invocation as a later turn finds it.
Resumed == [Started EXCEPT !.trace = trace, !.called = suspended.called]

\* What a turn leaves behind; an exception it raised goes to the host, not to
\* the try/catch of evaluateMetaFunction, which has returned.
ObserveTurn(turn) ==
  /\ trace' = turn.trace
  /\ ret' = IF turn.thrown = NoThrow THEN Returned(Undefined) ELSE Threw(turn.thrown)
  /\ suspended' = [called |-> turn.called, pending |-> Tail(suspended.pending)]

\* A later host turn in which the body's evaluation calls its next
\* continuation.
ResumeBody ==
  /\ pc = "suspended"
  /\ suspended.pending # <<>>
  /\ ObserveTurn(IF Head(suspended.pending).k = "c"
                 THEN OnResult(Resumed, inp.metaFunction, Recording,
                               Head(suspended.pending).x.raw)
                 ELSE OnException(Resumed, inp.metaFunction, Recording, Recording,
                                  Head(suspended.pending).x))
  /\ UNCHANGED <<pc, inp, op, env, object, scriptIdsCounter, context, dispatched, trackingMap,
                 frames, invocations>>

SuspendedNext == CallEvaluateMetaFunctionSuspending \/ ResumeBody

SpecSuspended == SuspendedInit /\ [][SuspendedNext]_vars

\* C15: within one invocation the interceptor is called with phase exit at
\* most once, whatever continuations the body calls and however often, and
\* also when the interceptor throws.
C15_ExitAtMostOnce == Count("exit") <= 1

(***************************************************************************)
(* The base evaluators as a state machine                                  *)
(***************************************************************************)
Names == {"x", "y"}
FrameValues == {"1", "2"}

\* A frame's values: some of the names, each bound to a value.
Frames == UNION {[S -> FrameValues] : S \in SUBSET Names}

\* An environment: the frame and the frames reached through prev.
Chains == SeqsUpTo(Frames, MaxFrames) \ {<<>>}

IdentifierInputs ==
  [kind : {"Identifier"},
   e : {[type |-> "Identifier", name |-> n, id |-> "Identifier_" \o n] : n \in Names},
   chain : Chains]

SupportedOperators ==
  {"=", "+=", "-=", "*=", "/=", "%=", "<<=", ">>=", ">>>=", "&=", "|=", "^="}

Operators == SupportedOperators \cup {"**=", "&&=", "??="}

SetPropertyInputs ==
  [kind : {"SetProperty"},
   e : [property : {"p"}, value : {Num(n) : n \in {-1, 0, 1, 2, 3}}, operator : Operators],
   old : {Num(n) : n \in {-3, 0, 2, 5}}]

\* Host functions: fn.apply returns value, or throws it.
ApplyInputs ==
  [kind : {"Apply"},
   e : [fn : [throws : BOOLEAN, value : {"1", "Error"}], thisObj : {"self"},
        args : SeqsUpTo(FewValues, 1)],
   c : {Recording, Throwing}, cerr : {Recording, Throwing}]

\* The object SetProperty is given: p holds the old value, q another one.
ObjectOf(input) == [pr \in {"p", "q"} |-> IF pr = "p" THEN input.old ELSE "7"]

BaseInit ==
  /\ pc = "start"
  /\ \/ inp \in IdentifierInputs \cup ApplyInputs /\ object = NoObject
     \/ inp \in SetPropertyInputs /\ object = ObjectOf(inp)
  /\ op = ""
  /\ trace = <<>>
  /\ env = NoEnv
  /\ ret = Returned(Undefined)
  /\ scriptIdsCounter = 0
  /\ context = NoContext
  /\ dispatched = NoDispatch
  /\ suspended = NoSuspension
  /\ trackingMap = NoTracking
  /\ frames = NoFrames
  /\ invocations = <<>>

CallIdentifier ==
  /\ pc = "start"
  /\ inp.kind = "Identifier"
  /\ trace' = Identifier(inp.e, inp.chain)
  /\ op' = "Identifier"
  /\ pc' = "done"
  /\ UNCHANGED <<inp, env, ret, object, scriptIdsCounter, context, dispatched, suspended, trackingMap,
                 frames, invocations>>

\* The call's effects become the next state.
ObserveSet(r) ==
  /\ trace' = r.trace
  /\ object' = r.object

CallSetProperty ==
  /\ pc = "start"
  /\ inp.kind = "SetProperty"
  /\ ObserveSet(SetProperty(inp.e, object))
  /\ op' = "SetProperty"
  /\ pc' = "done"
  /\ UNCHANGED <<inp, env, ret, scriptIdsCounter, context, dispatched, suspended, trackingMap,
                 frames, invocations>>

\* The call's effects become the next state.
ObserveApply(st) ==
  /\ trace' = st.trace
  /\ ret' = IF st.thrown = NoThrow THEN Returned(Undefined) ELSE Threw(st.thrown)

CallApply ==
  /\ pc = "start"
  /\ inp.kind = "Apply"
  /\ ObserveApply(Apply(inp.e, inp.c, inp.cerr))
  /\ op' = "Apply"
  /\ pc' = "done"
  /\ UNCHANGED <<inp, env, object, scriptIdsCounter, context, dispatched, suspended, trackingMap,
                 frames, invocations>>

BaseNext == CallIdentifier \/ CallSetProperty \/ CallApply

SpecBase == BaseInit /\ [][BaseNext]_vars

(***************************************************************************)
(* Properties of the base evaluators                                       *)
(***************************************************************************)
\* The frames of the chain that bind the identifier's name.
BindingFrames == {i \in DOMAIN inp.chain : inp.e.name \in DOMAIN inp.chain[i]}

Nearest(S) == CHOOSE i \in S : \A j \in S : i <= j

\* C7: an identifier bound somewhere in the chain answers c once with the
\* value of the nearest binding and never cerr; an identifier bound nowhere
\* answers cerr once with an exception located at the Identifier node, and
\* never c.
C7_IdentifierLookup ==
  (pc = "done" /\ op = "Identifier") =>
     IF BindingFrames # {}
     THEN trace = <<Ev("c", Raw(inp.chain[Nearest(BindingFrames)][inp.e.name]))>>
     ELSE /\ Len(trace) = 1
          /\ trace[1].k = "cerr"
          /\ trace[1].x.isPacket
          /\ trace[1].x.location = inp.e.id

C7_Witness ==
  /\ pc = "done" /\ op = "Identifier"
  /\ inp.e.name = "x"
  /\ Len(inp.chain) = 2
  /\ DOMAIN inp.chain[1] = {"y"} /\ DOMAIN inp.chain[2] = {"y"}
  /\ Len(trace) = 1 /\ trace[1].k = "cerr" /\ trace[1].x.location = "Identifier_x"

\* The host's binary operator behind each compound assignment operator.
Combined(operator, old, value) ==
  CASE operator = "=" -> Num(value)
    [] operator = "+=" -> Num(old + value)
    [] operator = "-=" -> Num(old - value)
    [] operator = "*=" -> Num(old * value)
    [] operator = "/=" -> JSDiv(old, value)
    [] operator = "%=" -> JSRem(old, value)
    [] operator = "<<=" -> JSShl(old, value)
    [] operator = ">>=" -> JSShr(old, value)
    [] operator = ">>>=" -> JSUshr(old, value)
    [] operator = "&=" -> Num(BitAnd(old, value))
    [] operator = "|=" -> Num(BitOr(old, value))
    [] operator = "^=" -> Num(BitXor(old, value))

\* C8: for an operator outside the supported set, cerr is called once with a
\* NotImplementedException, c is not called and the object is unchanged; for
\* an operator inside the set, c is called once with the new value of
\* object[property] (the old value combined with value by that operator), the
\* property holds that value afterwards and cerr is not called.
C8_SetProperty ==
  (pc = "done" /\ op = "SetProperty") =>
     IF inp.e.operator \notin
          {"=", "+=", "-=", "*=", "/=", "%=", "<<=", ">>=", ">>>=", "&=", "|=", "^="}
     THEN /\ Len(trace) = 1
          /\ trace[1].k = "cerr"
          /\ trace[1].x.type = "NotImplementedException"
          /\ object = ObjectOf(inp)
     ELSE /\ trace = <<Ev("c", Raw(object[inp.e.property]))>>
          /\ object[inp.e.property] = Combined(inp.e.operator, NumOf(inp.old), NumOf(inp.e.value))
          /\ object["q"] = "7"

C8_Witness ==
  /\ pc = "done" /\ op = "SetProperty"
  /\ inp.e.operator = "-=" /\ inp.old = "2" /\ inp.e.value = "3"
  /\ object["p"] = "-1"
  /\ trace = <<Ev("c", Raw("-1"))>>

\* C18: Apply calls exactly one continuation exactly once: c with the
\* function's result when fn.apply returns, cerr when fn.apply throws; an
\* exception raised by c does not make Apply call cerr.
C18_ApplyExactlyOneContinuation ==
  (pc = "done" /\ op = "Apply") =>
     IF inp.e.fn.throws
     THEN Len(trace) = 1 /\ trace[1].k = "cerr"
     ELSE trace = <<Ev("c", Raw(inp.e.fn.value))>>

\* C19: what an error continuation receives is an ExceptionPacket, never a
\* raw host exception or a raw thrown value.
C19_CerrReceivesPackets ==
  \A i \in DOMAIN trace : trace[i].k = "cerr" => trace[i].x.isPacket

(***************************************************************************)
(* metaes.ts: metaesEval and MetaesContext.evaluate                        *)
(***************************************************************************)
\* a || b on continuations
ContOr(a, b) == IF a.kind = "absent" THEN b ELSE a

NoFrame == [n \in {} |-> Undefined]

\* Environment objects: own key `values` (a frame), own key `prev`, and any
\* other own keys (plain), as a caller may pass a bare values object.
NoEnvironment == [given |-> FALSE, hasValues |-> FALSE, values |-> NoFrame,
                  hasPrev |-> FALSE, prev |-> "none", plain |-> NoFrame]

EnvObject(values) == [given |-> TRUE, hasValues |-> TRUE, values |-> values,
                      hasPrev |-> FALSE, prev |-> "none", plain |-> NoFrame]

PlainObject(plain) == [given |-> TRUE, hasValues |-> FALSE, values |-> NoFrame,
                       hasPrev |-> FALSE, prev |-> "none", plain |-> plain]

\* Config objects: interceptor is "absent" or "custom"; scriptId is Undefined
\* when the key is missing; alias tells which object it is: the caller's
\* own ("own"), the context's default config ("context") or a fresh copy
\* ("copy").
NoEvalConfig == [given |-> FALSE, interceptor |-> "absent", scriptId |-> Undefined,
                 alias |-> "own"]
EvalConfig(interceptor, scriptId) ==
  [given |-> TRUE, interceptor |-> interceptor, scriptId |-> scriptId, alias |-> "own"]

\* parse(source) / parseFunction(source) / a node passed as it is.  The parser
\* throws a SyntaxError on text that is not a program.
ParseSource(source) ==
  CASE source.type = "object" -> [threw |-> FALSE, node |-> source.text, exception |-> NoThrow]
    [] source.type = "function" ->
         [threw |-> FALSE, node |-> "ast((" \o source.text \o "))", exception |-> NoThrow]
    [] OTHER ->
         IF source.text = "2+"
         THEN [threw |-> TRUE, node |-> "", exception |-> Thrown("SyntaxError")]
         ELSE [threw |-> FALSE, node |-> "ast(" \o source.text \o ")", exception |-> NoThrow]

\* evaluate(node, env, config, c, cerr): the continuation calls the
\* evaluation of each node makes.
EvaluateNode(node) ==
  CASE node = "ast(2+2)" -> <<Ev("c", Raw("4"))>>
    [] node = "ast(throw 1;)" -> <<Ev("cerr", Packet("ThrowStatement", "1", node))>>
    [] node = "ast((x => x))" -> <<Ev("c", Raw("metaFunction"))>>
    [] OTHER -> <<Ev("cerr", NotImplementedException("node type interpreter is not defined yet.", node))>>

\* exception => cerr && cerr(exception), made to throw when cerr is missing.
TopLevelCerr_Rethrows(st, cerr, exception) ==
  IF cerr.kind = "absent"
  THEN [st EXCEPT !.thrown = exception]
  ELSE Invoke(st, "cerr", cerr, exception)

\* val => c && c(val)
TopLevelC(st, c, val) == IF c.kind = "absent" THEN st ELSE Invoke(st, "c", c, val)

\* exception => cerr && cerr(exception)
TopLevelCerr(st, cerr, exception) ==
  IF cerr.kind = "absent" THEN st ELSE Invoke(st, "cerr", cerr, exception)

\* The dispatcher delivering an evaluation's continuation calls; a host
\* exception raised by a continuation unwinds the evaluation.
RECURSIVE Deliver(_, _, _, _)
Deliver(outcome, st, c, cerr) ==
  IF outcome = <<>> \/ st.thrown # NoThrow
  THEN st
  ELSE LET o == Head(outcome)
           s1 == IF o.k = "c" THEN TopLevelC(st, c, o.x) ELSE TopLevelCerr(st, cerr, o.x)
       IN Deliver(Tail(outcome), s1, c, cerr)

\* env = "values" in environment ? environment : { values: environment }
\* (a bare object becomes the values; an own key prev becomes a value too).
AsEnvironment(environment) ==
  IF environment.hasValues
  THEN environment
  ELSE [given |-> TRUE, hasValues |-> TRUE,
        values |-> IF environment.hasPrev
                   THEN Bind(environment.plain, "prev", "[object Object]")
                   ELSE environment.plain,
        hasPrev |-> FALSE, prev |-> "none", plain |-> NoFrame]

\* environment = {} and config = {} when the caller passes none.
DefaultEnvironment(environment) ==
  IF environment.given THEN environment ELSE PlainObject(NoFrame)

DefaultConfig(config) == IF config.given THEN config ELSE EvalConfig("absent", Undefined)

\* if (!config.interceptor) { config.interceptor = function noop() {}; }
WithInterceptor(config) ==
  IF config.interceptor = "absent" THEN [config EXCEPT !.interceptor = "noop"] ELSE config

\* if (!config.scriptId) { config.scriptId = "" + scriptIdsCounter++; }
WithScriptId(config, counter) ==
  IF Truthy(config.scriptId) THEN config ELSE [config EXCEPT !.scriptId = Num(counter)]

\* The try block of metaesEval.
EvalTryBlock(parsed, c, cerr) ==
  IF parsed.threw
  THEN [Started EXCEPT !.thrown = parsed.exception]
  ELSE Deliver(EvaluateNode(parsed.node), Started, c, cerr)

\* catch (e) { if (cerr) { cerr(e); } else { throw e; } }
EvalCatchBlock(tried, cerr) ==
  IF tried.thrown = NoThrow \/ cerr.kind = "absent"
  THEN tried
  ELSE Invoke(tried, "cerr", cerr, tried.thrown)

\* What a call of metaesEval leaves behind.
EvalOutcome(caught, parsed, environment, config, counter) ==
  [trace |-> caught.trace,
   ret |-> IF caught.thrown = NoThrow THEN Returned(Undefined) ELSE Threw(caught.thrown),
   counter |-> IF ~parsed.threw /\ ~Truthy(config.scriptId) THEN counter + 1 ELSE counter,
   config |-> IF parsed.threw THEN config ELSE WithScriptId(config, counter),
   dispatched |-> IF parsed.threw
                  THEN NoDispatch
                  ELSE [happened |-> TRUE, node |-> parsed.node,
                        env |-> AsEnvironment(environment),
                        config |-> WithScriptId(config, counter)]]

MetaesEval(source, c, cerr, environmentArg, configArg, counter) ==
  EvalOutcome(EvalCatchBlock(EvalTryBlock(ParseSource(source), c, cerr), cerr),
              ParseSource(source), DefaultEnvironment(environmentArg),
              WithInterceptor(DefaultConfig(configArg)), counter)

\* The environment argument handed on without its link to the root.
LayerEnvironment_NoPrev(root, environment) == environment

\* Object.assign({ prev: this.environment }, environment)
LayerEnvironment(root, environment) ==
  [environment EXCEPT !.hasPrev = TRUE,
                      !.prev = IF environment.hasPrev THEN environment.prev ELSE root]

\* this.config, as the object the context holds.
ContextConfig(ctx) == [ctx.config EXCEPT !.alias = "context"]

\* Object.assign({}, config)
AssignCopy(config) == [config EXCEPT !.alias = "copy"]

\* MetaesContext.evaluate handing `config || this.config` itself to metaesEval.
ContextEvaluate_SharesConfig(ctx, source, c, cerr, environment, config, counter) ==
  MetaesEval(source, ContOr(c, ctx.c), ContOr(cerr, ctx.cerr),
             IF environment.given THEN LayerEnvironment(ctx.environment, environment)
             ELSE ctx.environment,
             IF config.given THEN config ELSE ContextConfig(ctx),
             counter)

ContextEvaluate(ctx, source, c, cerr, environment, config, counter) ==
  MetaesEval(source, ContOr(c, ctx.c), ContOr(cerr, ctx.cerr),
             IF environment.given THEN LayerEnvironment(ctx.environment, environment)
             ELSE ctx.environment,
             AssignCopy(IF config.given THEN config ELSE ContextConfig(ctx)),
             counter)

(***************************************************************************)
(* The evaluation facade as a state machine                                *)
(***************************************************************************)
Sources ==
  {[type |-> "string", text |-> "2+2"],
   [type |-> "string", text |-> "throw 1;"],
   [type |-> "string", text |-> "2+"],
   [type |-> "function", text |-> "x => x"],
   [type |-> "object", text |-> "ast(debugger)"]}

Continuations == {Absent, Recording, Throwing}

RootValues == [n \in {"a", "b"} |-> IF n = "a" THEN "1" ELSE "3"]
ChildValues == [n \in {"a"} |-> "4"]

EnvironmentArgs == {NoEnvironment, EnvObject(ChildValues), PlainObject(ChildValues)}

ConfigArgs == {NoEvalConfig, EvalConfig("custom", Undefined), EvalConfig("absent", "mine")}

Contexts ==
  {[used |-> TRUE, c |-> k, cerr |-> k, environment |-> EnvObject(RootValues), config |-> cfg] :
     k \in {Absent, Recording},
     cfg \in {EvalConfig("custom", Undefined), EvalConfig("custom", "ctx")}}

\* Calls that vary the source and the continuations, and calls that vary
\* the environment and the config.
EvalInputs ==
  [source : Sources, c : Continuations, cerr : Continuations,
   environment : {NoEnvironment}, config : {NoEvalConfig}]
    \cup
  [source : {[type |-> "string", text |-> "2+2"], [type |-> "string", text |-> "2+"]},
   c : {Recording}, cerr : {Recording},
   environment : EnvironmentArgs, config : ConfigArgs]

NoInput == [source |-> [type |-> "string", text |-> ""], c |-> Absent, cerr |-> Absent,
            environment |-> NoEnvironment, config |-> NoEvalConfig]

EvalInit ==
  /\ pc = "start"
  /\ inp = NoInput
  /\ op = ""
  /\ trace = <<>>
  /\ env = NoEnv
  /\ ret = Returned(Undefined)
  /\ object = NoObject
  /\ scriptIdsCounter = 0
  /\ context \in Contexts
  /\ dispatched = NoDispatch
  /\ suspended = NoSuspension
  /\ trackingMap = NoTracking
  /\ frames = NoFrames
  /\ invocations = <<>>

\* The call's effects become the next state; what metaesEval assigned to
\* its config object shows in the context when that object is the context's.
ObserveEval(r) ==
  /\ trace' = r.trace
  /\ ret' = r.ret
  /\ scriptIdsCounter' = r.counter
  /\ dispatched' = r.dispatched
  /\ context' = IF r.config.alias = "context"
                THEN [context EXCEPT !.config = [r.config EXCEPT !.alias = "own"]]
                ELSE context

\* metaesEval(source, c, cerr, environment, config)
CallMetaesEval ==
  /\ scriptIdsCounter < MaxScripts
  /\ \E i \in EvalInputs :
       /\ inp' = i
       /\ ObserveEval(MetaesEval(i.source, i.c, i.cerr, i.environment, i.config,
                                 scriptIdsCounter))
  /\ op' = "metaesEval"
  /\ pc' = "done"
  /\ UNCHANGED <<env, object, suspended, trackingMap,
                 frames, invocations>>

\* context.evaluate(source, c, cerr, environment, config); the environment
\* argument is an EnvironmentBase, an object with a values key.
CallContextEvaluate ==
  /\ scriptIdsCounter < MaxScripts
  /\ \E i \in EvalInputs :
       /\ i.environment.given => i.environment.hasValues
       /\ inp' = i
       /\ ObserveEval(ContextEvaluate(context, i.source, i.c, i.cerr, i.environment,
                                      i.config, scriptIdsCounter))
  /\ op' = "MetaesContext.evaluate"
  /\ pc' = "done"
  /\ UNCHANGED <<env, object, suspended, trackingMap,
                 frames, invocations>>

EvalNext == CallMetaesEval \/ CallContextEvaluate

SpecEval == EvalInit /\ [][EvalNext]_vars

(***************************************************************************)
(* Properties of the evaluation facade                                     *)
(***************************************************************************)
Evaluated == pc = "done" /\ op \in {"metaesEval", "MetaesContext.evaluate"}

\* The continuations metaesEval runs with.
EffectiveC == IF op = "MetaesContext.evaluate" THEN ContOr(inp.c, context.c) ELSE inp.c
EffectiveCerr == IF op = "MetaesContext.evaluate" THEN ContOr(inp.cerr, context.cerr) ELSE inp.cerr

\* C5: each call invokes exactly one of its two continuations, exactly once:
\* c(value) when the evaluation succeeds, cerr(packet) when it fails; never
\* both, also when parsing throws or when a continuation itself throws.
C5_ExactlyOneContinuation ==
  (Evaluated /\ EffectiveC.kind # "absent" /\ EffectiveCerr.kind # "absent") =>
     /\ Count("c") + Count("cerr") = 1
     /\ (dispatched.happened /\ EvaluateNode(dispatched.node)[1].k = "c") =>
          trace[1] = EvaluateNode(dispatched.node)[1]
     /\ (dispatched.happened /\ EvaluateNode(dispatched.node)[1].k = "cerr") =>
          trace[1] = EvaluateNode(dispatched.node)[1]
     /\ ~dispatched.happened => trace[1].k = "cerr"

EffectiveConfig == IF inp'.config.given THEN inp'.config ELSE context.config

\* A step that is a call of MetaesContext.evaluate reaching the dispatcher.
ContextDispatch == op' = "MetaesContext.evaluate" /\ dispatched'.happened

\* C11: a MetaesContext.evaluate call whose effective config has no scriptId
\* is dispatched with the decimal string of the counter, which the call
\* advances and no call ever lowers, so the id is greater than that of every
\* earlier such call; a call whose config has a scriptId is dispatched with
\* it and leaves the counter alone; no call gives the context's default
\* config a scriptId.
C11_ScriptIdAssignment ==
  [][/\ (ContextDispatch /\ ~Truthy(EffectiveConfig.scriptId)) =>
          /\ dispatched'.config.scriptId = Num(scriptIdsCounter)
          /\ scriptIdsCounter' = scriptIdsCounter + 1
     /\ (ContextDispatch /\ Truthy(EffectiveConfig.scriptId)) =>
          /\ dispatched'.config.scriptId = EffectiveConfig.scriptId
          /\ scriptIdsCounter' = scriptIdsCounter
     /\ scriptIdsCounter' >= scriptIdsCounter
     /\ context'.config.scriptId = context.config.scriptId]_vars

C11_Witness ==
  /\ pc = "done" /\ op = "MetaesContext.evaluate"
  /\ ~inp.config.given /\ context.config.scriptId = Undefined
  /\ dispatched.happened /\ dispatched.config.scriptId = "1"
  /\ scriptIdsCounter = 2

\* What a lookup of name finds in the dispatched frame and the frame its prev
\* names.
ReadDispatched(name) ==
  GetValue(name, IF dispatched.env.hasPrev
                 THEN <<dispatched.env.values, dispatched.env.prev.values>>
                 ELSE <<dispatched.env.values>>)

MaxItems == 3

\* setValue(name, value, env): assign in the nearest frame that binds name,
\* or create the binding in the root frame when none does.
RECURSIVE SetValue(_, _, _)
SetValue(name, value, chain) ==
  IF Len(chain) = 1 \/ name \in DOMAIN Head(chain)
  THEN <<Bind(Head(chain), name, value)>> \o Tail(chain)
  ELSE <<Head(chain)>> \o SetValue(name, value, Tail(chain))

\* The value ++ or -- computes from the current one.
UpdatedValue(operator, old) ==
  Num(IF operator = "++" THEN NumOf(old) + 1 ELSE NumOf(old) - 1)

\* The update once the current value has been read.
AfterRead(e, chain, got) ==
  IF got.k = "cerr"
  THEN [trace |-> <<Ev("cerr", [got.x EXCEPT !.location = e.id])>>, chain |-> chain]
  ELSE [trace |-> <<Ev("c", Raw(IF e.prefix THEN UpdatedValue(e.operator, got.x.raw)
                                ELSE got.x.raw))>>,
        chain |-> SetValue(e.name, UpdatedValue(e.operator, got.x.raw), chain)]

\* UpdateExpression whose postfix forms yield the new value.
UpdateExpression_YieldsNew(e, chain) ==
  AfterRead([e EXCEPT !.prefix = TRUE], chain, GetValue(e.name, chain))

\* UpdateExpression(e, c, cerr, env) on an Identifier argument.
UpdateExpression(e, chain) == AfterRead(e, chain, GetValue(e.name, chain))

\* The statement a loop body comes to for item o: it completes, or ends with
\* `throw o`, `break`, `continue` or `return o`.
BodyStatement(body, o) ==
  CASE body[o] = "throw" -> Ev("cerr", Packet("ThrowStatement", o, "ThrowStatement"))
    [] body[o] = "break" -> Ev("cerr", Packet("BreakStatement", Undefined, "BreakStatement"))
    [] body[o] = "continue" ->
         Ev("cerr", Packet("ContinueStatement", Undefined, "ContinueStatement"))
    [] body[o] = "return" -> Ev("cerr", Packet("ReturnStatement", o, "ReturnStatement"))
    [] OTHER -> Ev("c", Raw(Undefined))

\* ForOfStatement that goes on with the next item whatever the body raised.
RECURSIVE ForOfStatement_SwallowsThrow(_, _, _)
ForOfStatement_SwallowsThrow(items, body, log) ==
  IF items = <<>>
  THEN [log |-> log, outcome |-> Ev("c", Raw(Undefined))]
  ELSE IF BodyStatement(body, Head(items)).k = "cerr"
          /\ BodyStatement(body, Head(items)).x.type \in {"BreakStatement", "ReturnStatement"}
       THEN [log |-> log \o <<Ev("iteration", Raw(Head(items)))>>,
             outcome |-> IF BodyStatement(body, Head(items)).x.type = "BreakStatement"
                         THEN Ev("c", Raw(Undefined))
                         ELSE BodyStatement(body, Head(items))]
       ELSE ForOfStatement_SwallowsThrow(Tail(items), body,
                                         log \o <<Ev("iteration", Raw(Head(items)))>>)

\* ForOfStatement: the body runs once per item in a frame binding the loop
\* variable; break ends the loop, continue goes on with the next item, any
\* other packet ends the loop and goes to the loop's cerr.
RECURSIVE ForOfStatement(_, _, _)
ForOfStatement(items, body, log) ==
  IF items = <<>>
  THEN [log |-> log, outcome |-> Ev("c", Raw(Undefined))]
  ELSE IF BodyStatement(body, Head(items)).k = "cerr"
          /\ BodyStatement(body, Head(items)).x.type # "ContinueStatement"
       THEN [log |-> log \o <<Ev("iteration", Raw(Head(items)))>>,
             outcome |-> IF BodyStatement(body, Head(items)).x.type = "BreakStatement"
                         THEN Ev("c", Raw(Undefined))
                         ELSE BodyStatement(body, Head(items))]
       ELSE ForOfStatement(Tail(items), body, log \o <<Ev("iteration", Raw(Head(items)))>>)

\* TryStatement once its block has ended as tried says: a ThrowStatement
\* packet runs the catch clause `result = true` in a fresh frame binding the
\* parameter; every other outcome passes through.
TryStatement(tried) ==
  IF tried.outcome.k = "cerr" /\ tried.outcome.x.type = "ThrowStatement"
  THEN [log |-> tried.log \o <<Ev("catch", Raw(tried.outcome.x.value))>>,
        outcome |-> Ev("c", Raw("true")),
        frame |-> [n \in {"e"} |-> tried.outcome.x.value],
        result |-> "true"]
  ELSE [log |-> tried.log, outcome |-> tried.outcome, frame |-> NoFrame, result |-> "false"]

\* The statements of a block after the try statement: `result;` runs when the
\* try statement completed, and its value is the block's.
ThenResult(done) ==
  [trace |-> done.log \o (IF done.outcome.k = "c"
                          THEN <<Ev("after", Raw(done.result)), Ev("c", Raw(done.result))>>
                          ELSE <<done.outcome>>),
   frame |-> done.frame]

\* let result = false; try { for (let o of items) body } catch (e) { result = true } result;
TryForOf(items, body) == ThenResult(TryStatement(ForOfStatement(items, body, <<>>)))

(***************************************************************************)
(* The statement evaluators as a state machine                             *)
(***************************************************************************)
UpdateInputs ==
  [kind : {"UpdateExpression"},
   e : {[type |-> "UpdateExpression", operator |-> o, prefix |-> p, name |-> n,
         id |-> "UpdateExpression_" \o n] :
          o \in {"++", "--"}, p \in BOOLEAN, n \in Names},
   chain : Chains]

Items == {"1", "2"}

Completions == {"complete", "throw", "break", "continue", "return"}

LoopInputs ==
  [kind : {"TryStatement"}, items : SeqsUpTo(Items, MaxItems), body : [Items -> Completions]]

StatementInit ==
  /\ pc = "start"
  /\ inp \in UpdateInputs \cup LoopInputs
  /\ op = ""
  /\ trace = <<>>
  /\ env = NoEnv
  /\ ret = Returned(Undefined)
  /\ object = NoObject
  /\ scriptIdsCounter = 0
  /\ context = NoContext
  /\ dispatched = NoDispatch
  /\ suspended = NoSuspension
  /\ trackingMap = NoTracking
  /\ frames = NoFrames
  /\ invocations = <<>>

\* The call's effects become the next state.
ObserveUpdate(r) ==
  /\ trace' = r.trace
  /\ env' = [prev |-> "", values |-> NoFrame, chain |-> r.chain]

CallUpdateExpression ==
  /\ pc = "start"
  /\ inp.kind = "UpdateExpression"
  /\ ObserveUpdate(UpdateExpression(inp.e, inp.chain))
  /\ op' = "UpdateExpression"
  /\ pc' = "done"
  /\ UNCHANGED <<inp, ret, object, scriptIdsCounter, context, dispatched, suspended, trackingMap,
                 frames, invocations>>

\* The call's effects become the next state.
ObserveTry(r) ==
  /\ trace' = r.trace
  /\ env' = [prev |-> "", values |-> r.frame]

CallTryForOf ==
  /\ pc = "start"
  /\ inp.kind = "TryStatement"
  /\ ObserveTry(TryForOf(inp.items, inp.body))
  /\ op' = "TryStatement"
  /\ pc' = "done"
  /\ UNCHANGED <<inp, ret, object, scriptIdsCounter, context, dispatched, suspended, trackingMap,
                 frames, invocations>>

StatementNext == CallUpdateExpression \/ CallTryForOf

SpecStatements == StatementInit /\ [][StatementNext]_vars

(***************************************************************************)
(* Properties of the statement evaluators                                  *)
(***************************************************************************)
\* n+1 for ++ and n-1 for --
Stepped(operator, n) == IF operator = "++" THEN n + 1 ELSE n - 1

\* C13: for a variable bound to a number n, ++ leaves it bound to n+1 and --
\* to n-1 in the nearest frame that binds it, every other binding staying as
\* it was; the prefix forms yield the new value, the postfix forms yield n.
C13_UpdateExpression ==
  (pc = "done" /\ op = "UpdateExpression" /\ BindingFrames # {}) =>
     /\ env.chain =
          [inp.chain EXCEPT ![Nearest(BindingFrames)][inp.e.name] =
             Num(Stepped(inp.e.operator, NumOf(@)))]
     /\ trace = <<Ev("c", Raw(IF inp.e.prefix
                              THEN env.chain[Nearest(BindingFrames)][inp.e.name]
                              ELSE inp.chain[Nearest(BindingFrames)][inp.e.name]))>>

C13_Witness ==
  /\ pc = "done" /\ op = "UpdateExpression"
  /\ inp.e.operator = "--" /\ ~inp.e.prefix /\ inp.e.name = "x"
  /\ Len(inp.chain) = 2 /\ DOMAIN inp.chain[1] = {"y"}
  /\ inp.chain[2] = [n \in {"x", "y"} |-> "1"]
  /\ env.chain[2]["x"] = "0" /\ env.chain[2]["y"] = "1"
  /\ trace = <<Ev("c", Raw("1"))>>

\* The iterations whose body ends the loop.
Ending == {i \in DOMAIN inp.items : inp.body[inp.items[i]] \in {"throw", "break", "return"}}

\* The iteration a throw ends the loop on (0 when the loop ends otherwise).
ThrowAt == IF Ending # {} /\ inp.body[inp.items[Nearest(Ending)]] = "throw"
           THEN Nearest(Ending) ELSE 0

\* C14: a throw in a for-of body inside try/catch ends the loop on that
\* iteration (the iterations run are those up to it), reaches the catch
\* clause with the thrown value bound to its parameter, and the statement
\* after the try/catch then runs.
C14_ThrowFromLoop ==
  (pc = "done" /\ op = "TryStatement" /\ ThrowAt # 0) =>
     /\ SelectSeq(trace, LAMBDA t : t.k = "iteration") =
          [i \in 1..ThrowAt |-> Ev("iteration", Raw(inp.items[i]))]
     /\ SelectSeq(trace, LAMBDA t : t.k = "catch") = <<Ev("catch", Raw(inp.items[ThrowAt]))>>
     /\ env.values = [n \in {"e"} |-> inp.items[ThrowAt]]
     /\ SelectSeq(trace, LAMBDA t : t.k \in {"after", "c", "cerr"}) =
          <<Ev("after", Raw("true")), Ev("c", Raw("true"))>>
     /\ trace[Len(trace)].k = "c"

C14_Witness ==
  /\ pc = "done" /\ op = "TryStatement"
  /\ inp.items = <<"1", "2", "1">> /\ inp.body["1"] = "complete" /\ inp.body["2"] = "throw"
  /\ trace = <<Ev("iteration", Raw("1")), Ev("iteration", Raw("2")), Ev("catch", Raw("2")),
               Ev("after", Raw("true")), Ev("c", Raw("true"))>>

(***************************************************************************)
(* createFlameInterceptor                                                  *)
(***************************************************************************)
MaxEvents == 5

\* { path: [], root: { children: [], value: "_context" } }.  A FlameNode is
\* named by the number of the evaluation that created it; children holds
\* node.children for every node and root holds root.children.
NewTracking == [path |-> <<>>, root |-> <<>>, children |-> [n \in {} |-> <<>>]]

\* The interceptor without `tracking.path.pop()`.
Track_NoPop(tracking, evaluation) ==
  IF evaluation.phase = "enter"
  THEN [path |-> Append(tracking.path, evaluation.id),
        root |-> IF Len(tracking.path) + 1 > 1
                 THEN tracking.root
                 ELSE Append(tracking.root, evaluation.id),
        children |->
          [n \in DOMAIN tracking.children \cup {evaluation.id} |->
             IF n = evaluation.id THEN <<>>
             ELSE IF Len(tracking.path) + 1 > 1 /\ n = tracking.path[Len(tracking.path)]
                  THEN Append(tracking.children[n], evaluation.id)
                  ELSE tracking.children[n]]]
  ELSE tracking

\* What the interceptor does to the tracking of the evaluation's script: an
\* enter pushes a new node on the path and adds it to the children of the
\* node below it (of root when there is none); an exit pops the path.
Track(tracking, evaluation) ==
  IF evaluation.phase = "enter"
  THEN [path |-> Append(tracking.path, evaluation.id),
        root |-> IF Len(tracking.path) + 1 > 1
                 THEN tracking.root
                 ELSE Append(tracking.root, evaluation.id),
        children |->
          [n \in DOMAIN tracking.children \cup {evaluation.id} |->
             IF n = evaluation.id THEN <<>>
             ELSE IF Len(tracking.path) + 1 > 1 /\ n = tracking.path[Len(tracking.path)]
                  THEN Append(tracking.children[n], evaluation.id)
                  ELSE tracking.children[n]]]
  ELSE [tracking EXCEPT !.path = IF @ = <<>> THEN <<>> ELSE SubSeq(@, 1, Len(@) - 1)]

\* createFlameInterceptor(trackingMap)(evaluation): the tracking of
\* evaluation.scriptId is created when missing, then updated.
CreateFlameInterceptor(map, evaluation) ==
  Bind(map, evaluation.scriptId,
       Track(IF evaluation.scriptId \in DOMAIN map THEN map[evaluation.scriptId]
             ELSE NewTracking,
             evaluation))

ScriptIds == {"0", "1"}

FlameInit ==
  /\ pc = "start"
  /\ inp = NoInput
  /\ op = ""
  /\ trace = <<>>
  /\ env = NoEnv
  /\ ret = Returned(Undefined)
  /\ object = NoObject
  /\ scriptIdsCounter = 0
  /\ context = NoContext
  /\ dispatched = NoDispatch
  /\ suspended = NoSuspension
  /\ trackingMap = NoTracking
  /\ frames = NoFrames
  /\ invocations = <<>>

\* The interceptor is called with an evaluation of some script in some phase.
FlameInterceptor ==
  /\ Len(trace) < MaxEvents
  /\ \E scriptId \in ScriptIds, phase \in {"enter", "exit"} :
       /\ trackingMap' = CreateFlameInterceptor(trackingMap,
                           [scriptId |-> scriptId, phase |-> phase, id |-> Len(trace) + 1])
       /\ trace' = Append(trace, Ev(phase, Raw(scriptId)))
  /\ op' = "flameInterceptor"
  /\ pc' = "done"
  /\ UNCHANGED <<inp, env, ret, object, scriptIdsCounter, context, dispatched, suspended,
                 frames, invocations>>

FlameNext == FlameInterceptor

SpecFlame == FlameInit /\ [][FlameNext]_vars

(***************************************************************************)
(* Properties of createFlameInterceptor                                    *)
(***************************************************************************)
\* The events of script s and kind k among tr[a+1..b].
EventsIn(tr, s, k, a, b) == {i \in (a + 1)..b : tr[i].k = k /\ tr[i].x.raw = s}

\* Every exit closes an enter of its script that is still open.
WellMatched(tr) ==
  \A s \in ScriptIds : \A j \in DOMAIN tr :
    Cardinality(EventsIn(tr, s, "exit", 0, j)) <= Cardinality(EventsIn(tr, s, "enter", 0, j))

\* Event i of tr is an enter of script s that no later exit has closed.
Unclosed(tr, s, i) ==
  /\ i \in EventsIn(tr, s, "enter", 0, Len(tr))
  /\ \A j \in (i + 1)..Len(tr) :
       Cardinality(EventsIn(tr, s, "exit", i, j)) <= Cardinality(EventsIn(tr, s, "enter", i, j))

Max(S) == CHOOSE i \in S : \A j \in S : j <= i

\* The node that was on top of the path of script s when event i entered
\* (0 for root).
ParentOf(tr, s, i) ==
  IF \E k \in 1..(i - 1) : Unclosed(SubSeq(tr, 1, i - 1), s, k)
  THEN Max({k \in 1..(i - 1) : Unclosed(SubSeq(tr, 1, i - 1), s, k)})
  ELSE 0

\* q lists exactly the members of S, in increasing order.
Lists(q, S) ==
  /\ {q[a] : a \in DOMAIN q} = S
  /\ \A a, b \in DOMAIN q : a < b => q[a] < q[b]

\* The tracking of script s mirrors the trace.
Mirrors(s) ==
  /\ Lists(trackingMap[s].path, {i \in DOMAIN trace : Unclosed(trace, s, i)})
  /\ DOMAIN trackingMap[s].children = EventsIn(trace, s, "enter", 0, Len(trace))
  /\ Lists(trackingMap[s].root,
           {i \in EventsIn(trace, s, "enter", 0, Len(trace)) : ParentOf(trace, s, i) = 0})
  /\ \A n \in DOMAIN trackingMap[s].children :
       Lists(trackingMap[s].children[n],
             {i \in EventsIn(trace, s, "enter", 0, Len(trace)) : ParentOf(trace, s, i) = n})
  /\ Cardinality(EventsIn(trace, s, "enter", 0, Len(trace)))
       = Cardinality(EventsIn(trace, s, "exit", 0, Len(trace)))
     => trackingMap[s].path = <<>>

\* The tracking of script s in map, as the interceptor would find or create it.
TrackingOf(map, s) == IF s \in DOMAIN map THEN map[s] ELSE NewTracking

\* The step is an event of one script: the tracking of every other script is
\* as before, and an exit on an empty path leaves the tree as it was.
EventKeepsOthers ==
  Len(trace') = Len(trace) + 1 =>
    /\ \A s \in ScriptIds \ {trace'[Len(trace')].x.raw} :
         /\ s \in DOMAIN trackingMap' <=> s \in DOMAIN trackingMap
         /\ s \in DOMAIN trackingMap => trackingMap'[s] = trackingMap[s]
    /\ (trace'[Len(trace')].k = "exit"
          /\ TrackingOf(trackingMap, trace'[Len(trace')].x.raw).path = <<>>) =>
         /\ trackingMap'[trace'[Len(trace')].x.raw].root
              = TrackingOf(trackingMap, trace'[Len(trace')].x.raw).root
         /\ trackingMap'[trace'[Len(trace')].x.raw].children
              = TrackingOf(trackingMap, trace'[Len(trace')].x.raw).children

\* C20: after events in which every exit closes the most recent open enter of
\* its script, the path of each script lists the entered and not yet exited
\* nodes in entry order, every node is a child of the node that was on top of
\* the path when it entered (of root when the path was empty), and the path
\* is empty once every enter has been exited; an event of one script leaves
\* the tracking of the others unchanged, and an exit on an empty path leaves
\* the tree unchanged.
C20_FlameTracking ==
  /\ [](WellMatched(trace) => \A s \in DOMAIN trackingMap : Mirrors(s))
  /\ [][EventKeepsOthers]_vars

C20_Witness ==
  /\ op = "flameInterceptor"
  /\ trace = <<Ev("enter", Raw("0")), Ev("enter", Raw("0")), Ev("exit", Raw("0")),
               Ev("enter", Raw("1")), Ev("enter", Raw("0"))>>
  /\ trackingMap["0"].path = <<1, 5>>
  /\ trackingMap["0"].root = <<1>>
  /\ trackingMap["0"].children[1] = <<2, 5>>
  /\ trackingMap["1"].path = <<4>>

(***************************************************************************)
(* Invocations and their frames                                            *)
(*                                                                         *)
(* Frames are objects: frames[f] is the frame of identity f, and prev is   *)
(* the identity of the enclosing frame (0: none).  One meta-function is    *)
(* invoked several times, also while earlier invocations are still         *)
(* evaluating their bodies (nested, recursive or suspended invocations).   *)
(***************************************************************************)
MaxInvocations == 2
MaxAssignments == 1

NoPrev == 0
RootFrame == 1
ClosureFrame == 2

\* The frames that exist before the first invocation: a root frame, and the
\* frame the function was created in, whose bindings parameters may shadow.
ExistingFrames ==
  <<[prev |-> NoPrev, values |-> [n \in {"b"} |-> Val("root_b")]],
    [prev |-> RootFrame, values |-> [n \in {"a"} |-> Val("outer_a")]]>>

\* The identities of env, env.prev, env.prev.prev, ...
RECURSIVE ChainIds(_, _)
ChainIds(heap, f) ==
  IF f = NoPrev THEN <<>> ELSE <<f>> \o ChainIds(heap, heap[f].prev)

\* The values of the frames ids names, in that order.
ValuesAlong(heap, ids) == [k \in DOMAIN ids |-> heap[ids[k]].values]

\* The frames once the frames ids names hold the values of chain.
Store(heap, ids, chain) ==
  [f \in DOMAIN heap |->
     IF \E k \in DOMAIN ids : ids[k] = f
     THEN [heap[f] EXCEPT !.values = chain[CHOOSE k \in DOMAIN ids : ids[k] = f]]
     ELSE heap[f]]

\* setValue(name, value, env) on the frames reachable from the frame f.
Assign(heap, f, name, value) ==
  Store(heap, ChainIds(heap, f),
        SetValue(name, value, ValuesAlong(heap, ChainIds(heap, f))))

\* An invocation that binds this, arguments and the parameters in the
\* closure frame itself.
InvocationFrame_InClosure(heap, metaFunction, thisObject, args) ==
  [heap |-> [heap EXCEPT ![metaFunction.closure].values =
               BindParams(metaFunction.e.params, args, 0,
                          Bind(Bind(@, "this", Val(thisObject)), "arguments", Arr(args))).values],
   env |-> metaFunction.closure,
   error |-> BindParams(metaFunction.e.params, args, 0,
                        NewFrameValues(thisObject, args)).error]

\* const env = { prev: closure, values: { this: thisObject, arguments: args } }
\* and the parameter loop: the object literal is a new frame, and every
\* env.values[...] = ... of the loop writes to it.
InvocationFrame(heap, metaFunction, thisObject, args) ==
  [heap |-> Append(heap,
                   [prev |-> metaFunction.closure,
                    values |-> BindParams(metaFunction.e.params, args, 0,
                                          NewFrameValues(thisObject, args)).values]),
   env |-> Len(heap) + 1,
   error |-> BindParams(metaFunction.e.params, args, 0,
                        NewFrameValues(thisObject, args)).error]

\* What is known of one invocation: its frame, what it was called with,
\* whether its body is being evaluated (it is not when the parameter loop
\* threw, nor once the body has completed), and how many assignments the
\* body has made.
Invocation(r, thisObject, args) ==
  [env |-> r.env, thisObject |-> thisObject, args |-> args,
   evaluating |-> r.error = NoThrow, assignments |-> 0]

\* Parameter lists over a, ...xs and a destructuring pattern.
FrameParamLists ==
  {ps \in ParamLists : \A p \in DOMAIN ps : ps[p].name \in {"a", "xs", ""}}

FrameInputs ==
  [metaFunction : {[e |-> [id |-> "fn", params |-> ps], closure |-> ClosureFrame,
                    config |-> NoConfig] : ps \in FrameParamLists},
   thisObject : {"self"}]

\* What an invocation is called with: nothing, one argument, two arguments.
FrameArgs == {<<>>, <<"1">>, <<"2", "1">>}

\* Names a body assigns to: a parameter that shadows a closure binding, and
\* a name no frame binds.
AssignedNames == {"a", "n"}

FrameInit ==
  /\ pc = "start"
  /\ inp \in FrameInputs
  /\ op = ""
  /\ trace = <<>>
  /\ env = NoEnv
  /\ ret = Returned(Undefined)
  /\ object = NoObject
  /\ scriptIdsCounter = 0
  /\ context = NoContext
  /\ dispatched = NoDispatch
  /\ suspended = NoSuspension
  /\ trackingMap = NoTracking
  /\ frames = ExistingFrames
  /\ invocations = <<>>

\* The frames and the invocation a call leaves behind.
ObserveInvocation(r, thisObject, args) ==
  /\ frames' = r.heap
  /\ invocations' = Append(invocations, Invocation(r, thisObject, args))

\* evaluateMetaFunction(metaFunction, c, cerr, thisObject, args), up to the
\* evaluation of the body; the caller is the host or the body of an
\* invocation that is still evaluating.
InvokeMetaFunction ==
  /\ Len(invocations) < MaxInvocations
  /\ \E args \in FrameArgs :
       ObserveInvocation(InvocationFrame(frames, inp.metaFunction, inp.thisObject, args),
                         inp.thisObject, args)
  /\ op' = "evaluateMetaFunction"
  /\ pc' = "done"
  /\ UNCHANGED <<inp, trace, env, ret, object, scriptIdsCounter, context, dispatched,
                 suspended, trackingMap>>

\* The body of an invocation assigns to a name.
BodyAssigns ==
  /\ \E i \in DOMAIN invocations, name \in AssignedNames :
       /\ invocations[i].evaluating
       /\ invocations[i].assignments < MaxAssignments
       /\ frames' = Assign(frames, invocations[i].env, name, Val("9"))
       /\ invocations' = [invocations EXCEPT ![i].assignments = @ + 1]
  /\ op' = "setValue"
  /\ pc' = "done"
  /\ UNCHANGED <<inp, trace, env, ret, object, scriptIdsCounter, context, dispatched,
                 suspended, trackingMap>>

\* The body of an invocation completes.
BodyCompletes ==
  /\ \E i \in DOMAIN invocations :
       /\ invocations[i].evaluating
       /\ invocations' = [invocations EXCEPT ![i].evaluating = FALSE]
  /\ op' = "complete"
  /\ pc' = "done"
  /\ UNCHANGED <<inp, trace, env, ret, object, scriptIdsCounter, context, dispatched,
                 suspended, trackingMap, frames>>

FrameNext == InvokeMetaFunction \/ BodyAssigns \/ BodyCompletes

SpecFrames == FrameInit /\ [][FrameNext]_vars

(***************************************************************************)
(* Invocation frames: properties                                           *)
(***************************************************************************)
Reaches(heap, f, g) == \E k \in DOMAIN ChainIds(heap, f) : ChainIds(heap, f)[k] = g

\* The parameters the loop gets to: those before the first unsupported one.
BoundParams ==
  {p \in DOMAIN inp.metaFunction.e.params :
     \A q \in 1..p : Supported(inp.metaFunction.e.params[q])}

\* The frame of invocation i is its own, hangs below the closure, binds this,
\* arguments and the parameters, and is reachable from no other invocation.
OwnFrame(i) ==
  /\ invocations[i].env > Len(ExistingFrames)
  /\ frames[invocations[i].env].prev = inp.metaFunction.closure
  /\ frames[invocations[i].env].values["this"] = Val(invocations[i].thisObject)
  /\ frames[invocations[i].env].values["arguments"] = Arr(invocations[i].args)
  /\ \A p \in BoundParams :
       inp.metaFunction.e.params[p].name \in DOMAIN frames[invocations[i].env].values
  /\ \A j \in DOMAIN invocations :
       j # i => ~Reaches(frames, invocations[j].env, invocations[i].env)

\* An invocation leaves every frame that exists as it is.
BindingKeepsFrames ==
  Len(invocations') > Len(invocations) =>
    /\ Len(frames') = Len(frames) + 1
    /\ \A f \in DOMAIN frames : frames'[f] = frames[f]

\* The frame of an invocation changes only in a step of that invocation.
OthersKeepFrame ==
  \A j \in DOMAIN invocations :
    invocations'[j] = invocations[j] =>
      frames'[invocations[j].env] = frames[invocations[j].env]

\* C21: every invocation of evaluateMetaFunction binds this, arguments and
\* the parameters in a frame of its own whose prev is metaFunction.closure;
\* binding adds or changes nothing in the closure frame or a frame above it,
\* and the bindings of one invocation are neither reachable from nor changed
\* by another invocation of the same meta-function, nested ones included.
C21_InvocationFrames ==
  /\ [](\A i \in DOMAIN invocations : OwnFrame(i))
  /\ [][BindingKeepsFrames /\ OthersKeepFrame]_vars

\* Two invocations evaluate their bodies at once, both with a parameter a
\* that shadows the closure's a: the first has assigned 9 to it, the second
\* was called with 2, and the closure frame still binds its own a.
C21_Witness ==
  /\ Len(invocations) >= 2
  /\ invocations[1].evaluating
  /\ invocations[2].evaluating
  /\ "a" \in DOMAIN frames[invocations[1].env].values
  /\ "a" \in DOMAIN frames[invocations[2].env].values
  /\ frames[invocations[1].env].values["a"] = Val("9")
  /\ frames[invocations[2].env].values["a"] = Val("2")
  /\ frames[ClosureFrame].values["a"] = Val("outer_a")

====
